---- MODULE Spec2Model ----
(***************************************************************************)
(* A model of the e-love chat service: the conversations store and the     *)
(* messages store (two relational tables), ConversationsService,           *)
(* MessagesService, and the per-connection WebSocket receive loop.         *)
(*                                                                         *)
(* Concurrency: every request and every WebSocket connection is its own    *)
(* coroutine with its own AsyncSession (get_db_session); coroutines        *)
(* interleave at the awaits.  A handler is therefore one action per        *)
(* stretch of code between two awaits that another coroutine can observe:  *)
(* the SELECT and the COMMIT of create_conversation, and the commit and    *)
(* the send_json of one WebSocket frame.  Handlers whose awaits touch      *)
(* nothing another coroutine can change in between are one action.         *)
(***************************************************************************)
EXTENDS Integers, Sequences, FiniteSets, TLC

\* ------------------------------------------------------------------ bounds
MaxConversations == 2
MaxMessages == 3
\* Rows of the message table in the runs of the REST endpoints alone.
MaxRestMessages == 2
\* Frames received over all connections together.
MaxFrames == 3
\* Frames received by the one connection that is open beside REST requests.
MaxSessionFrames == 2

\* Two coroutines of each kind: enough for every race between two of them.
Callers == {"c1", "c2"}

Sessions == {"s1", "s2"}

\* The user each client connects as: a participant of the first
\* conversation and a user who takes part in no conversation.  The
\* WebSocket endpoint takes the conversation id of the path and nothing
\* else, so no statement of the program ever reads this.
ConnectingIdentity(s) == IF s = "s1" THEN "aaaa" ELSE "cccc"

\* ------------------------------------------------------------ id strings
(* The user ids of a request are Python str values.  IdStrings lists the   *)
(* ones the model draws, in Python's str order (uppercase before           *)
(* lowercase): "" is the empty or missing value; "BBBB", "aaaa", "bbbb",   *)
(* "cccc" stand for well-formed UUID strings, "BBBB" being the uppercase   *)
(* spelling of "bbbb"; "zz" is a non-empty string that is no UUID.         *)
IdStrings == <<"", "BBBB", "aaaa", "bbbb", "cccc", "zz">>

Ids == {IdStrings[i] : i \in DOMAIN IdStrings}

\* The user ids create_conversation is called with.
UserIdInputs == {"", "BBBB", "aaaa", "zz"}

StrRank(s) == CHOOSE i \in DOMAIN IdStrings : IdStrings[i] = s

\* Python's `x < y` on two str values.
StrLess(x, y) == StrRank(x) < StrRank(y)

\* Python's `not x` on a str (or None) value.
Falsy(x) == x = ""

\* uuid.UUID(str(x)): the UUID value of a well-formed string, whatever its
\* case, and ValueError for any other string.
ToUUID(x) ==
  CASE x \in {"BBBB", "bbbb"} -> "uuid-b"
    [] x = "aaaa" -> "uuid-a"
    [] x = "cccc" -> "uuid-c"
    [] OTHER -> "ValueError"

\* --------------------------------------------------------------- state
VARIABLES
  conversations,  \* table conversations: row id = index; rows are never removed
  messages,       \* table message: row id = index
  calls,          \* create_conversation coroutines, one per caller
  sessions,       \* WebSocket connections
  last            \* the request that completed last, with its response

vars == <<conversations, messages, calls, sessions, last>>

NoCall == [pc |-> "idle", user_first_id |-> "", user_second_id |-> "",
           code |-> 0, detail |-> "", ret |-> 0]

\* A field the JSON object of a frame does not have.
Missing == "<missing>"

\* A frame the endpoint sends.  row is not part of the JSON object: it is
\* the id of the message row whose commit the frame reports (0: none).
NoResponse == [action |-> "", sender_id |-> "", recipient_id |-> "",
               content |-> "", error |-> "", row |-> 0]

\* A connection before its handshake.  inbox lists the frames received, each
\* with the id of the message row its handling committed (0: none) and with
\* how the storage behaved during its handling; outbox lists the frames
\* sent; response is the frame the loop is about to send.
NoSession == [state |-> "Connecting", conversation_id |-> 0, close_code |-> 0,
              inbox |-> <<>>, outbox |-> <<>>, response |-> NoResponse,
              closing |-> FALSE]

\* db is not part of the request: it is how the storage behaved during it.
NoLast == [op |-> "none", conversation_id |-> 0, message_id |-> 0,
           sender_id |-> "", recipient_id |-> "", content |-> "",
           new_status |-> "", code |-> 0, detail |-> "", db |-> "ok"]

\* ------------------------------------------------- ConversationsService
\* The swap of create_conversation: the smaller string first.
CanonicalNoSwap(a, b) == <<a, b>>

Canonical(a, b) == IF StrLess(a, b) THEN <<a, b>> ELSE <<b, a>>

\* `user_first_id == user_second_id`
SameUserNever(a, b) == FALSE

SameUser(a, b) == a = b

\* select(Conversations).where(user_first_id == f, user_second_id == s)
SelectPair(f, s) ==
  {i \in DOMAIN conversations :
     /\ conversations[i].user_first_id = f
     /\ conversations[i].user_second_id = s}

\* UniqueConstraint("user_first_id", "user_second_id"): the INSERT of (f, s)
\* raises IntegrityError when a row with these two columns exists.
UniqueNotEnforced(f, s) == FALSE

UniqueViolation(f, s) == SelectPair(f, s) # {}

NewConversation(f, s) ==
  [user_first_id |-> f, user_second_id |-> s, is_deleted |-> FALSE]

Done(c, code, detail, ret) ==
  calls' = [calls EXCEPT ![c].pc = "done", ![c].code = code,
                         ![c].detail = detail, ![c].ret = ret]

\* create_conversation up to and including the SELECT: the two argument
\* checks, the swap, the lookup of an existing row.
CreateConversationSelect(c, a, b) ==
  /\ calls[c].pc \in {"idle", "done"}
  /\ LET call == [NoCall EXCEPT !.user_first_id = a, !.user_second_id = b]
         pair == Canonical(a, b)
         existing == SelectPair(pair[1], pair[2])
     IN  IF Falsy(a) \/ Falsy(b)
         THEN calls' = [calls EXCEPT ![c] =
                [call EXCEPT !.pc = "done", !.code = 400,
                             !.detail = "Missing user IDs"]]
         ELSE IF SameUser(a, b)
         THEN calls' = [calls EXCEPT ![c] =
                [call EXCEPT !.pc = "done", !.code = 400,
                   !.detail = "Cannot create conversation with the same user"]]
         ELSE IF existing # {}
         THEN calls' = [calls EXCEPT ![c] =
                [call EXCEPT !.pc = "done", !.code = 200,
                             !.ret = CHOOSE i \in existing : TRUE]]
         ELSE /\ Len(conversations)
                   + Cardinality({d \in Callers : calls[d].pc = "selected"})
                   < MaxConversations
              /\ calls' = [calls EXCEPT ![c] = [call EXCEPT !.pc = "selected"]]
  /\ UNCHANGED <<conversations, messages, sessions, last>>

\* create_conversation from add() to the return: the INSERT and COMMIT, which
\* the storage may fail (dbok = FALSE) and the unique constraint may reject.
CreateConversationCommit(c, dbok) ==
  /\ calls[c].pc = "selected"
  /\ LET pair == Canonical(calls[c].user_first_id, calls[c].user_second_id)
     IN  IF ~dbok
         THEN /\ Done(c, 500, "Unexpected server error!", 0)
              /\ UNCHANGED conversations
         ELSE IF UniqueViolation(pair[1], pair[2])
         THEN /\ Done(c, 400, "Conversation already exists", 0)
              /\ UNCHANGED conversations
         ELSE /\ conversations' =
                   Append(conversations, NewConversation(pair[1], pair[2]))
              /\ Done(c, 200, "", Len(conversations) + 1)
  /\ UNCHANGED <<messages, sessions, last>>

\* get_conversation_by_id: the 404 raised inside the try is an Exception, so
\* the `except Exception` clause catches it and raises 500 in its place.
GetConversationById(conversation_id) ==
  IF conversation_id \in DOMAIN conversations
  THEN [code |-> 200, detail |-> "", ret |-> conversation_id]
  ELSE [code |-> 500, detail |-> "Unexpected server error!", ret |-> 0]

\* delete_conversation: after the lookup, `conversation.is_deleted = True`
\* changes the loaded object only; the next line reads the name `datetime`,
\* which the module never imports, so NameError is raised, the
\* `except Exception` clause rolls the session back (the change is dropped
\* before any commit) and the call fails with 500.
DeleteConversation(conversation_id) ==
  /\ LET got == GetConversationById(conversation_id)
     IN  last' = [NoLast EXCEPT !.op = "delete_conversation",
                    !.conversation_id = conversation_id,
                    !.code = IF got.code = 200 THEN 500 ELSE got.code,
                    !.detail = "Unexpected server error!"]
  /\ UNCHANGED <<conversations, messages, calls, sessions>>

\* ------------------------------------------------------ MessagesService
\* MessageStatus(value): the member whose value is the given string.  The
\* member DELIVERED has the value "DELIVIRED".
StatusByValue(v) ==
  CASE v = "SENT" -> "SENT"
    [] v = "DELIVIRED" -> "DELIVERED"
    [] v = "READ" -> "READ"
    [] OTHER -> "ValueError"

NoMessage == [conversation_id |-> 0, sender_id |-> "", content |-> "",
              status |-> ""]

Refused(code, detail) ==
  [code |-> code, detail |-> detail, message |-> NoMessage]

\* `recipient_uuid and recipient_uuid not in allowed_users`
RecipientRefused(recipient_id, allowed_users) ==
  ~Falsy(recipient_id) /\ ToUUID(recipient_id) \notin allowed_users

\* `sender_uuid not in allowed_users`
SenderSkipped(sender_id, allowed_users) == FALSE

SenderRefused(sender_id, allowed_users) == ToUUID(sender_id) \notin allowed_users

\* Message(conversation_id=..., sender_id=..., content=..., status=SENT); the
\* recipient is not a column.
NewMessage(conversation_id, sender_id, content) ==
  [conversation_id |-> conversation_id, sender_id |-> ToUUID(sender_id),
   content |-> content, status |-> "SENT"]

\* How the storage behaves during one create_message call: it carries out
\* every statement ("ok"), or the awaited statement named raises: the SELECT
\* of the conversation, the COMMIT of the new row, or the refresh() of the
\* row after its commit.
DbOutcomes == {"ok", "select", "commit", "refresh"}

\* create_message: the response code and detail, and the row it commits or
\* NoMessage.  conversation_id 0 is the empty string; db is the behaviour of
\* the storage.  A refresh() that raises does so after the commit: the
\* rollback of the `except Exception` clause finds nothing to undo, the row
\* stays and the call fails with 500.
create_message(conversation_id, sender_id, recipient_id, content, db) ==
  IF conversation_id = 0 \/ Falsy(sender_id) \/ Falsy(content)
  THEN Refused(400, "Missing required fields")
  ELSE IF \/ ToUUID(sender_id) = "ValueError"
          \/ (~Falsy(recipient_id) /\ ToUUID(recipient_id) = "ValueError")
  THEN Refused(400, "Invalid UUID format")
  ELSE IF db = "select"
  THEN Refused(500, "Unexpected server error!")
  ELSE IF conversation_id \notin DOMAIN conversations
  THEN Refused(404, "Conversation not found")
  ELSE
    LET conversation == conversations[conversation_id]
        allowed_users == {ToUUID(conversation.user_first_id),
                          ToUUID(conversation.user_second_id)}
    IN  IF "ValueError" \in allowed_users
        THEN Refused(500, "Unexpected server error!")
        ELSE IF SenderRefused(sender_id, allowed_users)
        THEN Refused(403, "Sender not authorized in this conversation")
        ELSE IF RecipientRefused(recipient_id, allowed_users)
        THEN Refused(403, "Recipient not authorized in this conversation")
        ELSE IF db = "commit"
        THEN Refused(500, "Unexpected server error!")
        ELSE IF db = "refresh"
        THEN [code |-> 500, detail |-> "Unexpected server error!",
              message |-> NewMessage(conversation_id, sender_id, content)]
        ELSE [code |-> 200, detail |-> "",
              message |-> NewMessage(conversation_id, sender_id, content)]

\* The table after a create_message call with the given result: the row is
\* appended by the commit; the rollback of a call that fails acts on the
\* transaction of the caller's own AsyncSession and touches no committed row.
StoredSharedRollback(result) ==
  IF result.message # NoMessage
  THEN Append(messages, result.message)
  ELSE IF result.code = 500
  THEN SubSeq(messages, 1, Len(messages) - 1) ELSE messages

Stored(result) ==
  IF result.message # NoMessage
  THEN Append(messages, result.message) ELSE messages

\* POST /messages/: the endpoint passes its four query parameters on.
CreateMessage(conversation_id, sender_id, recipient_id, content, db) ==
  LET result ==
        create_message(conversation_id, sender_id, recipient_id, content, db)
  IN  /\ messages' = Stored(result)
      /\ last' = [NoLast EXCEPT !.op = "create_message",
                    !.conversation_id = conversation_id,
                    !.sender_id = sender_id, !.recipient_id = recipient_id,
                    !.content = content, !.message_id = Len(messages'),
                    !.code = result.code, !.detail = result.detail,
                    !.db = db]
      /\ UNCHANGED <<conversations, calls, sessions>>

\* `message.status = new_status_enum`
NextStatus(old, new) == new

\* PUT /messages/{message_id} and update_message.
UpdateMessage(message_id, new_status, dbok) ==
  LET new_status_enum == StatusByValue(new_status)
      reply(code, detail) ==
        /\ last' = [NoLast EXCEPT !.op = "update_message",
                      !.message_id = message_id, !.new_status = new_status,
                      !.code = code, !.detail = detail]
        /\ UNCHANGED messages
  IN  /\ IF Falsy(new_status)
         THEN reply(400, "Missing status field")
         ELSE IF new_status_enum = "ValueError"
         THEN reply(400, "Invalid status value")
         ELSE IF message_id \notin DOMAIN messages
         THEN reply(404, "Message not found")
         ELSE IF ~dbok
         THEN reply(500, "Unexpected server error!")
         ELSE /\ messages' = [messages EXCEPT ![message_id].status =
                     NextStatus(messages[message_id].status, new_status_enum)]
              /\ last' = [NoLast EXCEPT !.op = "update_message",
                            !.message_id = message_id,
                            !.new_status = new_status, !.code = 200]
      /\ UNCHANGED <<conversations, calls, sessions>>

\* ---------------------------------------------------- WebSocket endpoint
message_saved_response(sender_id, recipient_id, content) ==
  [NoResponse EXCEPT !.action = "message_saved", !.sender_id = sender_id,
                     !.recipient_id = recipient_id, !.content = content]

error_response(error_detail) == [NoResponse EXCEPT !.error = error_detail]

\* SendMessageAction(**raw_data): every field is required.
WellFormed(frame) ==
  Missing \notin {frame.action, frame.sender_id, frame.recipient_id,
                  frame.content}

\* The handshake: the connection is accepted when get_conversation_by_id
\* returns, and closed with code 1008 when it raises.
WsConnect(s, conversation_id) ==
  /\ sessions[s].state = "Connecting"
  /\ sessions' = [sessions EXCEPT ![s] =
       IF GetConversationById(conversation_id).code = 200
       THEN [@ EXCEPT !.state = "Active", !.conversation_id = conversation_id]
       ELSE [@ EXCEPT !.state = "Closed", !.close_code = 1008]]
  /\ UNCHANGED <<conversations, messages, calls, last>>

RECURSIVE Received(_)
\* The number of frames the connections in S have received.
Received(S) ==
  IF S = {} THEN 0
  ELSE LET s == CHOOSE x \in S : TRUE
       IN  Len(sessions[s].inbox) + Received(S \ {s})

\* One turn of the loop from receive_json to the await of send_json: the
\* frame is validated, dispatched, and handle_send_message commits the row.
WsReceive(s, frame, db) ==
  LET session == sessions[s]
      result == create_message(session.conversation_id, frame.sender_id,
                               frame.recipient_id, frame.content, db)
      handled == WellFormed(frame) /\ frame.action = "send_message"
      saved == handled /\ result.message # NoMessage
  IN  /\ session.state = "Active"
      /\ session.response = NoResponse
      /\ saved => Len(messages) < MaxMessages
      /\ messages' = IF handled THEN Stored(result) ELSE messages
      /\ sessions' = [sessions EXCEPT ![s] =
           [@ EXCEPT
              !.inbox = Append(@, [frame |-> frame, db |-> db,
                                   row |-> IF saved THEN Len(messages') ELSE 0]),
              !.closing = ~WellFormed(frame),
              !.response =
                IF ~WellFormed(frame)
                THEN error_response("Unexpected server error.")
                ELSE IF frame.action # "send_message"
                THEN error_response("Unknown action")
                ELSE IF result.code = 200
                THEN [message_saved_response(frame.sender_id,
                        frame.recipient_id, frame.content)
                      EXCEPT !.row = Len(messages')]
                ELSE error_response(result.detail)]]
      /\ UNCHANGED <<conversations, calls, last>>

\* The send_json of the turn; after the one of the `except Exception`
\* clause the loop breaks and the endpoint returns.
SendFirst(outbox, response) == <<response>> \o outbox

SendJson(outbox, response) == Append(outbox, response)

\* What follows the send_json: `break` in the `except Exception` clause
\* (the endpoint returns and the connection ends), the next turn of the loop
\* everywhere else.
AfterSendContinue(closing) == "Active"

AfterSend(closing) == IF closing THEN "Closed" ELSE "Active"

WsSend(s) ==
  /\ sessions[s].state = "Active"
  /\ sessions[s].response # NoResponse
  /\ sessions' = [sessions EXCEPT ![s] =
       [@ EXCEPT !.outbox = SendJson(@, sessions[s].response),
                 !.response = NoResponse,
                 !.closing = FALSE,
                 !.state = AfterSend(sessions[s].closing)]]
  /\ UNCHANGED <<conversations, messages, calls, last>>

\* The client goes away: receive_json (or a send_json under way) raises
\* WebSocketDisconnect and the loop ends; a row already committed stays.
WsDisconnect(s) ==
  /\ sessions[s].state = "Active"
  /\ sessions' = [sessions EXCEPT ![s] =
       [@ EXCEPT !.state = "Closed", !.response = NoResponse,
                 !.closing = FALSE]]
  /\ UNCHANGED <<conversations, messages, calls, last>>

\* ----------------------------------------------------- specifications
\* The ids delete_conversation is called with: those of the rows there can
\* be, and an id no row has.
ConversationIds == 1..(MaxConversations + 1)

\* The conversation ids a WebSocket path can name (a UUID, never empty): the
\* two rows and an id no row has.
PathIds == {1, 2, 3}

\* The first row and an id no row has.
WsPathIds == {1, 3}

\* The conversation ids POST /messages/ is called with: the empty string,
\* the two rows of InitMessages and an id no row has.
RestConversationIds == {0, 1, 2, 3}

Init ==
  /\ conversations = <<>>
  /\ messages = <<>>
  /\ calls = [c \in Callers |-> NoCall]
  /\ sessions = [s \in Sessions |-> NoSession]
  /\ last = NoLast

NextConversations ==
  \/ \E c \in Callers, a \in UserIdInputs, b \in UserIdInputs : CreateConversationSelect(c, a, b)
  \/ \E c \in Callers, dbok \in BOOLEAN : CreateConversationCommit(c, dbok)
  \/ \E id \in ConversationIds : DeleteConversation(id)

SpecConversations == Init /\ [][NextConversations]_vars

\* The message endpoints run against a conversations table that two
\* create_conversation calls have filled: ("aaaa", "BBBB") and ("zz", "aaaa").
InitMessages ==
  /\ conversations = <<NewConversation("BBBB", "aaaa"),
                       NewConversation("aaaa", "zz")>>
  /\ messages = <<>>
  /\ calls = [c \in Callers |-> NoCall]
  /\ sessions = [s \in Sessions |-> NoSession]
  /\ last = NoLast

MessageIds == 1..(MaxRestMessages + 1)

\* The sender_id, recipient_id and content of the sends the model draws:
\* participants of conversation 1 in either spelling, with and without a
\* recipient, the sender as recipient, an outsider ("cccc") as sender or as
\* recipient, ids that are no UUID, missing ids and empty content.
SendTuples ==
  { <<"aaaa", "BBBB", "hi">>, <<"bbbb", "aaaa", "hi">>, <<"aaaa", "", "hi">>,
    <<"aaaa", "aaaa", "hi">>, <<"aaaa", "cccc", "hi">>,
    <<"cccc", "aaaa", "hi">>, <<"cccc", "aaaa", "">>, <<"cccc", "zz", "hi">>,
    <<"zz", "aaaa", "hi">>, <<"", "aaaa", "hi">>, <<"aaaa", "zz", "hi">>,
    <<"aaaa", "BBBB", "">> }

SendInputs ==
  {[sender_id |-> t[1], recipient_id |-> t[2], content |-> t[3]] :
     t \in SendTuples}

\* The storage outcomes worth drawing for a send: a statement that raises
\* differs from one that does not only where the send reaches it.  A send
\* refused with 400 never asks the storage, one refused otherwise has passed
\* the SELECT, one that succeeds has passed all three statements.
StorageOutcomes(conversation_id, d) ==
  LET code == create_message(conversation_id, d.sender_id, d.recipient_id,
                             d.content, "ok").code
  IN  IF code = 200 THEN DbOutcomes
      ELSE IF code = 400 THEN {"ok"} ELSE {"ok", "select"}

\* The same for a frame: the storage is asked only when the frame is
\* dispatched to handle_send_message; for a send that reaches the commit
\* a SELECT that raises comes to the same as a COMMIT that raises, and the
\* latter is drawn.
FrameOutcomes(conversation_id, f) ==
  IF WellFormed(f) /\ f.action = "send_message"
  THEN StorageOutcomes(conversation_id, f)
         \ (IF DbOutcomes \subseteq StorageOutcomes(conversation_id, f)
             THEN {"select"} ELSE {})
  ELSE {"ok"}

StatusInputs == {"", "SENT", "DELIVERED", "DELIVIRED", "READ"}

NextRest ==
  \/ \E id \in RestConversationIds, d \in SendInputs :
       \E db \in StorageOutcomes(id, d) :
         /\ Len(messages) < MaxRestMessages
         /\ CreateMessage(id, d.sender_id, d.recipient_id, d.content, db)
  \/ \E m \in MessageIds, v \in StatusInputs, dbok \in BOOLEAN :
        UpdateMessage(m, v, dbok)
  \/ \E id \in WsPathIds : DeleteConversation(id)

SpecRest == InitMessages /\ [][NextRest]_vars


FrameTuples ==
  { <<"send_message", "aaaa", "BBBB", "hi">>,
    <<"send_message", "bbbb", "aaaa", "hi">>,
    <<"typing", "aaaa", "BBBB", "hi">>,
    <<"send_message", "aaaa", "BBBB", Missing>> }

FrameInputs ==
  {[action |-> t[1], sender_id |-> t[2], recipient_id |-> t[3],
    content |-> t[4]] : t \in FrameTuples}

NextWs ==
  \/ \E s \in Sessions, id \in WsPathIds : WsConnect(s, id)
  \/ \E s \in Sessions, f \in FrameInputs :
       \E db \in FrameOutcomes(sessions[s].conversation_id, f) :
         Received(Sessions) < MaxFrames /\ WsReceive(s, f, db)
  \/ \E s \in Sessions : WsSend(s)
  \/ \E s \in Sessions : WsDisconnect(s)

SpecWs == InitMessages /\ [][NextWs]_vars

\* One open connection beside POST /messages/ requests for the two rows.
OneSession == {"s1"}

RestTuples ==
  { <<"aaaa", "BBBB", "hi">>, <<"cccc", "aaaa", "hi">>,
    <<"cccc", "aaaa", "">> }

RestInputs ==
  {[sender_id |-> t[1], recipient_id |-> t[2], content |-> t[3]] :
     t \in RestTuples}

SendFrameTuples ==
  { <<"send_message", "aaaa", "BBBB", "hi">>,
    <<"send_message", "cccc", "aaaa", "hi">>,
    <<"send_message", "cccc", "aaaa", "">>,
    <<"send_message", "zz", "aaaa", "hi">> }

SendFrameInputs ==
  {[action |-> t[1], sender_id |-> t[2], recipient_id |-> t[3],
    content |-> t[4]] : t \in SendFrameTuples}

NextSend ==
  \/ \E s \in OneSession, id \in PathIds : WsConnect(s, id)
  \/ \E s \in OneSession, f \in SendFrameInputs :
       \E db \in FrameOutcomes(sessions[s].conversation_id, f) :
         Received(OneSession) < MaxSessionFrames /\ WsReceive(s, f, db)
  \/ \E s \in OneSession : WsSend(s)
  \/ \E s \in OneSession : WsDisconnect(s)
  \/ \E id \in DOMAIN conversations, d \in RestInputs :
       \E db \in StorageOutcomes(id, d) :
         /\ Len(messages) < MaxMessages
         /\ CreateMessage(id, d.sender_id, d.recipient_id, d.content, db)

SpecSend == InitMessages /\ [][NextSend]_vars

\* ------------------------------------------------------------- claims
Succeeded(c) == calls[c].pc = "done" /\ calls[c].code = 200

Pair(row) == {row.user_first_id, row.user_second_id}

\* A caller starts create_conversation in this step (its SELECT part runs).
Starts(c) == calls[c].pc \in {"idle", "done"} /\ calls'[c] # calls[c]

C1_Returned ==
  \A c \in Callers : Succeeded(c) =>
    LET args == {calls[c].user_first_id, calls[c].user_second_id}
        id == calls[c].ret
    IN  /\ id \in DOMAIN conversations
        /\ Pair(conversations[id]) = args
        /\ StrLess(conversations[id].user_first_id,
                   conversations[id].user_second_id)
        /\ \A i \in DOMAIN conversations :
             Pair(conversations[i]) = args => i = id
        /\ \A d \in Callers :
             (Succeeded(d)
                /\ {calls[d].user_first_id, calls[d].user_second_id} = args)
             => calls[d].ret = id

C1_LaterCall ==
  \A c \in Callers, i \in DOMAIN conversations :
    (/\ Starts(c)
     /\ Pair(conversations[i])
          = {calls'[c].user_first_id, calls'[c].user_second_id})
    => /\ calls'[c].pc = "done"
       /\ calls'[c].code = 200
       /\ calls'[c].ret = i
       /\ conversations' = conversations

C2_SameUserRejected ==
  [][\A c \in Callers :
       (Starts(c) /\ calls'[c].user_first_id = calls'[c].user_second_id)
       => /\ calls'[c].pc = "done"
          /\ calls'[c].code = 400
          /\ calls'[c].ret = 0
          /\ conversations' = conversations]_vars

\* A call with two equal non-empty ids was rejected while a row is stored.
C2_Witness ==
  \E c \in Callers :
    /\ calls[c].pc = "done"
    /\ calls[c].user_first_id = calls[c].user_second_id
    /\ ~Falsy(calls[c].user_first_id)
    /\ calls[c].detail = "Cannot create conversation with the same user"
    /\ Len(conversations) > 0

\* C3: every stored conversation has two different participant ids, and no
\* two rows that are not deleted hold the same unordered pair.
C3_DistinctUniquePairs ==
  /\ \A i \in DOMAIN conversations :
       conversations[i].user_first_id # conversations[i].user_second_id
  /\ \A i, j \in DOMAIN conversations :
       (/\ i # j
        /\ ~conversations[i].is_deleted
        /\ ~conversations[j].is_deleted)
       => Pair(conversations[i]) # Pair(conversations[j])

\* Two concurrent calls for one pair both passed the SELECT, the second
\* INSERT was rejected, and delete_conversation ran on a stored row.
C3_Witness ==
  /\ Len(conversations) = MaxConversations
  /\ \E c \in Callers :
       /\ calls[c].pc = "done"
       /\ calls[c].detail = "Conversation already exists"
  /\ last.op = "delete_conversation"
  /\ last.conversation_id \in DOMAIN conversations

\* Two id strings name one user: the same string, or two spellings of one
\* UUID.
SameIdentity(x, y) ==
  x = y \/ (ToUUID(x) # "ValueError" /\ ToUUID(x) = ToUUID(y))

IsParticipant(id, conversation_id) ==
  /\ conversation_id \in DOMAIN conversations
  /\ \/ SameIdentity(id, conversations[conversation_id].user_first_id)
     \/ SameIdentity(id, conversations[conversation_id].user_second_id)

\* The send names a sender, a recipient (or none) and a content that pass
\* the field checks, in a conversation whose stored ids are UUIDs.
Regular(conversation_id, sender_id, recipient_id, content) ==
  /\ conversation_id \in DOMAIN conversations
  /\ ~Falsy(content)
  /\ ToUUID(sender_id) # "ValueError"
  /\ Falsy(recipient_id) \/ ToUUID(recipient_id) # "ValueError"
  /\ ToUUID(conversations[conversation_id].user_first_id) # "ValueError"
  /\ ToUUID(conversations[conversation_id].user_second_id) # "ValueError"

\* Connection s receives a frame in this step; Arrived(s) is its inbox entry.
Receives(s) == Len(sessions'[s].inbox) = Len(sessions[s].inbox) + 1

Arrived(s) == sessions'[s].inbox[Len(sessions'[s].inbox)]

SendFrame(s) ==
  /\ Receives(s)
  /\ WellFormed(Arrived(s).frame)
  /\ Arrived(s).frame.action = "send_message"

\* A POST /messages/ request is answered in this step.
RestSend == last' # last /\ last'.op = "create_message"

\* Connection t has been sent, or is about to be sent, a frame for message
\* row `row`.
Reaches(t, row) ==
  \/ sessions[t].response.row = row
  \/ \E k \in DOMAIN sessions[t].outbox : sessions[t].outbox[k].row = row

\* Entry e of the inbox of a connection on conversation_id is a send_message
\* frame with non-empty content from one participant to the other, in a
\* conversation that is not deleted, handled while the storage worked.
GoodSend(e, conversation_id) ==
  /\ WellFormed(e.frame)
  /\ e.frame.action = "send_message"
  /\ e.db = "ok"
  /\ ~conversations[conversation_id].is_deleted
  /\ Regular(conversation_id, e.frame.sender_id, e.frame.recipient_id,
             e.frame.content)
  /\ IsParticipant(e.frame.sender_id, conversation_id)
  /\ IsParticipant(e.frame.recipient_id, conversation_id)
  /\ ~SameIdentity(e.frame.recipient_id, e.frame.sender_id)

\* Connection t is open on the conversation and committed a row of its own
\* before `row`: it was open when `row` was committed.
OpenSince(t, conversation_id, row) ==
  /\ sessions[t].state = "Active"
  /\ sessions[t].conversation_id = conversation_id
  /\ \E j \in DOMAIN sessions[t].inbox :
       sessions[t].inbox[j].row \in 1..(row - 1)

\* C4: a send_message frame from a participant of the connection's
\* conversation is committed as a row with status SENT, and once its
\* message_saved frame has been sent, the row has been delivered to every
\* other connection that was open on the conversation when the frame was
\* handled and is still open.
C4_PersistedAndFannedOut ==
  \A s \in Sessions : \A k \in DOMAIN sessions[s].inbox :
    LET e == sessions[s].inbox[k]
    IN  GoodSend(e, sessions[s].conversation_id)
        => /\ e.row \in DOMAIN messages
           /\ messages[e.row].status = "SENT"
           /\ k \in DOMAIN sessions[s].outbox
              => \A t \in Sessions \ {s} :
                   OpenSince(t, sessions[s].conversation_id, e.row)
                   => Reaches(t, e.row)

\* The message_saved frames of connection s, in the order they were sent.
Confirmed(s) ==
  SelectSeq(sessions[s].outbox, LAMBDA r : r.action = "message_saved")

OutsiderRest(always403) ==
  (/\ RestSend
   /\ last'.conversation_id \in DOMAIN conversations
   /\ ~IsParticipant(last'.sender_id, last'.conversation_id))
  => /\ messages' = messages
     /\ last'.code \in {400, 403, 500}
     /\ (/\ last'.db # "select"
         /\ always403 \/ Regular(last'.conversation_id, last'.sender_id,
                                  last'.recipient_id, last'.content))
        => /\ last'.code = 403
           /\ last'.detail = "Sender not authorized in this conversation"

OutsiderWs(always403) ==
  \A s \in Sessions :
    (/\ SendFrame(s)
     /\ ~IsParticipant(Arrived(s).frame.sender_id, sessions[s].conversation_id))
    => /\ messages' = messages
       /\ Arrived(s).row = 0
       /\ sessions'[s].response.action # "message_saved"
       /\ sessions'[s].response.error # ""
       /\ (/\ Arrived(s).db # "select"
           /\ always403 \/ Regular(sessions[s].conversation_id,
                                    Arrived(s).frame.sender_id,
                                    Arrived(s).frame.recipient_id,
                                    Arrived(s).frame.content))
          => sessions'[s].response.error
               = "Sender not authorized in this conversation"

\* C6 as amended: a send whose sender is not a participant of the (existing)
\* conversation always fails and stores nothing, through POST /messages/ and
\* through a send_message frame alike; the failure is 403 "Sender not
\* authorized in this conversation" when the content is non-empty, the sender
\* id and the recipient id (if given) are well-formed UUIDs, both stored
\* participant ids are well-formed UUIDs and the storage answers the lookup
\* of the conversation, and 400 or 500 otherwise.
C6_OutsiderNeverStored == [][OutsiderRest(FALSE) /\ OutsiderWs(FALSE)]_vars

\* C6 as stated: such a send always fails with 403 (the storage working).
C6_OutsiderAlways403 == [][OutsiderRest(TRUE) /\ OutsiderWs(TRUE)]_vars

\* Both paths refused an outsider with 403 while a row is stored.
C6_Witness ==
  /\ Len(messages) > 0
  /\ last.op = "create_message"
  /\ last.code = 403
  /\ last.conversation_id \in DOMAIN conversations
  /\ ~IsParticipant(last.sender_id, last.conversation_id)
  /\ \E s \in Sessions : \E k \in DOMAIN sessions[s].outbox :
       /\ ~IsParticipant(sessions[s].inbox[k].frame.sender_id,
                         sessions[s].conversation_id)
       /\ sessions[s].outbox[k].error
            = "Sender not authorized in this conversation"

\* C7: a send that names a recipient succeeds only if the recipient is the
\* other participant: a participant of the conversation, and not the sender.
C7_RecipientIsOtherParticipant ==
  (/\ last.op = "create_message"
   /\ ~Falsy(last.recipient_id)
   /\ last.code = 200)
  => /\ IsParticipant(last.recipient_id, last.conversation_id)
     /\ ~SameIdentity(last.recipient_id, last.sender_id)

Rank(status) ==
  CASE status = "SENT" -> 1
    [] status = "DELIVERED" -> 2
    [] status = "READ" -> 3

\* An update_message request is answered in this step, the storage working.
Updates(m) ==
  /\ last' # last
  /\ last'.op = "update_message"
  /\ last'.message_id = m
  /\ last'.code # 500

\* C8: an update that names a status further along SENT, DELIVERED, READ
\* than the message's status succeeds and leaves the message with it.
C8_ForwardAccepted ==
  [][\A m \in DOMAIN messages :
       (/\ Updates(m)
        /\ last'.new_status \in {"SENT", "DELIVERED", "READ"}
        /\ Rank(last'.new_status) > Rank(messages[m].status))
       => /\ last'.code = 200
          /\ messages'[m].status = last'.new_status]_vars

\* C9: no step moves a message's status backwards, and an update that asks
\* for an earlier status is answered with 400 and changes nothing.
C9_NoRegression ==
  [][\A m \in DOMAIN messages :
       /\ Rank(messages'[m].status) >= Rank(messages[m].status)
       /\ (/\ Updates(m)
           /\ StatusByValue(last'.new_status) # "ValueError"
           /\ Rank(StatusByValue(last'.new_status)) < Rank(messages[m].status))
          => /\ last'.code = 400
             /\ messages' = messages]_vars

\* C10: once delete_conversation has been called on a stored conversation
\* the row is marked deleted, and a send to a row marked deleted, by
\* POST /messages/ or by a frame, is answered "Conversation not found" and
\* stores nothing.
C10_DeletedRefusesSends ==
  /\ (/\ last.op = "delete_conversation"
      /\ last.conversation_id \in DOMAIN conversations)
     => conversations[last.conversation_id].is_deleted
  /\ (/\ last.op = "create_message"
      /\ last.conversation_id \in DOMAIN conversations
      /\ conversations[last.conversation_id].is_deleted)
     => last.code = 404
  /\ \A s \in Sessions : \A k \in DOMAIN sessions[s].outbox :
       conversations[sessions[s].conversation_id].is_deleted
       => sessions[s].outbox[k].error = "Conversation not found"

\* C11: a connection is Active only if its conversation is stored, not
\* marked deleted, and the user connecting is one of its two participants;
\* a connection refused at the handshake is closed with code 1008 and has
\* received and been sent nothing.
C11_ActiveOnlyForParticipants ==
  \A s \in Sessions :
    /\ sessions[s].state = "Active"
       => /\ sessions[s].conversation_id \in DOMAIN conversations
          /\ ~conversations[sessions[s].conversation_id].is_deleted
          /\ IsParticipant(ConnectingIdentity(s), sessions[s].conversation_id)
    /\ (sessions[s].state = "Closed" /\ sessions[s].conversation_id = 0)
       => /\ sessions[s].close_code = 1008
          /\ sessions[s].inbox = <<>>
          /\ sessions[s].outbox = <<>>

\* Connection s is sent a frame in this step; Answered(s) is the frame it
\* answers.
Sends(s) == Len(sessions'[s].outbox) = Len(sessions[s].outbox) + 1

Answered(s) == sessions[s].inbox[Len(sessions[s].inbox)].frame

\* C12: the answer to a malformed frame is an error frame, and the
\* connection is Active after it, ready to receive the next frame.
C12_MalformedIsNotFatal ==
  [][\A s \in Sessions :
       (Sends(s) /\ ~WellFormed(Answered(s)))
       => /\ sessions'[s].outbox[Len(sessions'[s].outbox)].error # ""
          /\ sessions'[s].state = "Active"
          /\ sessions'[s].response = NoResponse]_vars

\* The answer (sent, or about to be sent) to entry k of the inbox of s.
Answer(s, k) ==
  IF k \in DOMAIN sessions[s].outbox THEN sessions[s].outbox[k]
  ELSE sessions[s].response

\* C13: a connection has been sent one frame for each frame it received (the
\* last one may be on its way while the connection is Active); the answer is
\* a message_saved frame with the frame's sender_id, recipient_id and
\* content exactly when handling the frame committed a row, which then has
\* status SENT, and an error frame otherwise.
C13_OneAnswerPerFrame ==
  \A s \in Sessions :
    /\ Len(sessions[s].outbox) <= Len(sessions[s].inbox)
    /\ Len(sessions[s].inbox) <= Len(sessions[s].outbox) + 1
    /\ sessions[s].state = "Active"
       => Len(sessions[s].inbox) = Len(sessions[s].outbox)
            + (IF sessions[s].response = NoResponse THEN 0 ELSE 1)
    /\ \A k \in DOMAIN sessions[s].inbox :
         LET e == sessions[s].inbox[k]
             r == Answer(s, k)
         IN  r # NoResponse
             => /\ (r.action = "message_saved") <=> (e.row # 0)
                /\ r.action = "message_saved"
                   => /\ r.error = ""
                      /\ r.sender_id = e.frame.sender_id
                      /\ r.recipient_id = e.frame.recipient_id
                      /\ r.content = e.frame.content
                      /\ e.row \in DOMAIN messages
                      /\ messages[e.row].status = "SENT"
                /\ r.action # "message_saved"
                   => r.action = "" /\ r.error # ""

\* C14: a send_message frame during whose handling a statement of the
\* storage raises leaves the message table as it was and is answered with
\* an error frame, after which the connection is Active.
C14_FailedSendLeavesNothing ==
  [][\A s \in Sessions :
       /\ (SendFrame(s) /\ Arrived(s).db # "ok")
          => /\ messages' = messages
             /\ Arrived(s).row = 0
             /\ sessions'[s].response.error # ""
             /\ ~sessions'[s].closing
       /\ (/\ Sends(s)
           /\ sessions[s].inbox[Len(sessions[s].inbox)].db # "ok")
          => /\ sessions'[s].outbox[Len(sessions'[s].outbox)].error # ""
             /\ sessions'[s].state = "Active"]_vars

\* C15: a connection that is Closed never changes again, so it receives no
\* frame and commits no row; a frame is received, and a row committed, only
\* by a connection that is Active and has no unexpected error pending; the
\* next step of a connection with an unexpected error pending, and the step
\* of a disconnect, end in Closed.
C15_ClosedIsTerminal ==
  [][/\ \A s \in Sessions :
          /\ sessions[s].state = "Closed" => sessions'[s] = sessions[s]
          /\ Receives(s)
             => sessions[s].state = "Active" /\ ~sessions[s].closing
          /\ (sessions[s].closing /\ sessions'[s] # sessions[s])
             => sessions'[s].state = "Closed"
          /\ (/\ sessions[s].state = "Active"
              /\ sessions'[s].state # "Active")
             => sessions'[s].state = "Closed"
     /\ messages' # messages
        => \E s \in Sessions :
             /\ Receives(s)
             /\ sessions[s].state = "Active"
             /\ Arrived(s).row = Len(messages')]_vars

\* One connection ended by the unexpected error of a malformed frame, the
\* other by a disconnect after it had committed a row.
C15_Witness ==
  \E s, t \in Sessions :
    /\ s # t
    /\ sessions[s].state = "Closed"
    /\ Len(sessions[s].outbox) > 0
    /\ ~WellFormed(sessions[s].inbox[Len(sessions[s].inbox)].frame)
    /\ sessions[s].outbox[Len(sessions[s].outbox)].error
         = "Unexpected server error."
    /\ sessions[t].state = "Closed"
    /\ Len(sessions[t].inbox) > Len(sessions[t].outbox)
    /\ sessions[t].inbox[Len(sessions[t].inbox)].row \in DOMAIN messages

\* C16: looking up a conversation id that no row has fails with 404
\* "Conversation not found", in get_conversation_by_id and in
\* delete_conversation, and the tables stay as they were.
C16_MissingIsNotFound ==
  /\ \A id \in ConversationIds \ DOMAIN conversations :
       /\ GetConversationById(id).code = 404
       /\ GetConversationById(id).detail = "Conversation not found"
  /\ (/\ last.op = "delete_conversation"
      /\ last.conversation_id \notin DOMAIN conversations)
     => /\ last.code = 404
        /\ last.detail = "Conversation not found"

\* C17: every create_conversation call for two distinct ids that the storage
\* carried out succeeded, also when another call for the same pair ran
\* interleaved with it; the row it returned holds the pair, and no other row
\* does.
C17_ConcurrentCreateIdempotent ==
  \A c \in Callers :
    (/\ calls[c].pc = "done"
     /\ ~Falsy(calls[c].user_first_id)
     /\ ~Falsy(calls[c].user_second_id)
     /\ calls[c].user_first_id # calls[c].user_second_id
     /\ calls[c].detail # "Unexpected server error!")
    => /\ calls[c].code = 200
       /\ calls[c].ret \in DOMAIN conversations
       /\ \A i \in DOMAIN conversations :
            Pair(conversations[i])
              = {calls[c].user_first_id, calls[c].user_second_id}
            <=> i = calls[c].ret

\* The rows committed through connection s.
Rows(s) ==
  {sessions[s].inbox[k].row : k \in DOMAIN sessions[s].inbox} \ {0}

\* C18: every row committed through a connection has the conversation id of
\* the connection, and all rows committed through one connection have the
\* same sender.
C18_OneConversationOneSender ==
  \A s \in Sessions :
    /\ \A i \in Rows(s) :
         messages[i].conversation_id = sessions[s].conversation_id
    /\ \A i, j \in Rows(s) : messages[i].sender_id = messages[j].sender_id

\* C19: a step changes one connection at most; no step removes or changes a
\* row of the message table, whatever fails, is rolled back or is closed in
\* it; and a send_message frame from one participant to the other, handled
\* while the storage works, is committed whatever state the other
\* connections are in.
C19_SessionsAreIsolated ==
  [][/\ \A s, t \in Sessions :
          (s # t /\ sessions'[s] # sessions[s]) => sessions'[t] = sessions[t]
     /\ Len(messages') >= Len(messages)
     /\ SubSeq(messages', 1, Len(messages)) = messages
     /\ \A s \in Sessions :
          (Receives(s) /\ GoodSend(Arrived(s), sessions[s].conversation_id))
          => /\ Arrived(s).row = Len(messages) + 1
             /\ Len(messages') = Len(messages) + 1
             /\ sessions'[s].response.action = "message_saved"]_vars

\* One connection had a send rolled back and was then closed by a malformed
\* frame; the other connection, open on the same conversation, has its row
\* in the table and was sent the confirmation.
C19_Witness ==
  \E s, t \in Sessions :
    /\ s # t
    /\ sessions[s].state = "Closed"
    /\ Len(sessions[s].outbox) = 2
    /\ sessions[s].inbox[1].db = "commit"
    /\ sessions[s].outbox[1].error = "Unexpected server error!"
    /\ sessions[s].outbox[2].error = "Unexpected server error."
    /\ sessions[t].state = "Active"
    /\ sessions[t].conversation_id = sessions[s].conversation_id
    /\ Len(Confirmed(t)) = 1
    /\ Confirmed(t)[1].row \in DOMAIN messages

====
